---- MODULE Spec2Model ----
(***************************************************************************)
(* Model of the Document Timeline plugin (src/main.ts): renderTimeline,    *)
(* its document selection loop, its date resolution (Promise.all), the     *)
(* sort, the date range, the year labels, calculatePosition and            *)
(* adjustPosition, the final write to the active view, and the handlers    *)
(* of the settings tab that change this.settings while renderTimeline is   *)
(* suspended at an await.                                                  *)
(*                                                                         *)
(* JavaScript numbers are modelled as IEEE 754 doubles, rounded after      *)
(* every operation as the engine rounds them, with NaN and the two         *)
(* infinities.  Strings are sequences of one-character strings.  Time is   *)
(* counted in ticks; a calendar year is TicksPerYear ticks long.           *)
(***************************************************************************)
EXTENDS Integers, Sequences, FiniteSets, TLC

\* ------------------------------------------------------------ bounds
\* Largest number of documents in the vault when the dates vary.
MaxDocs == 3
\* Largest number of documents in the vault when the tags vary.
MaxTagDocs == 2
\* Length of a calendar year, in ticks.
TicksPerYear == 25
\* Latest tick a document can be dated at, and the tick of the command.
MaxTime == 60
\* Largest number of ticks that pass while renderTimeline runs.
MaxElapsed == 2
\* Largest number of times the settings are changed while renderTimeline runs.
MaxSettingChanges == 1
\* Largest number of selected documents when only the layout runs.
MaxItems == 5
\* ------------------------------------------------- JavaScript numbers
\* A number is an IEEE 754 double: NaN, +Infinity, -Infinity, or the finite value
\* s * m * 2^e with s the sign (0 for zero), m a natural number below 2^53 that is odd
\* (so that equal values are equal records) and e an integer.  Every operation gives
\* the double nearest to the exact result, ties to the even mantissa.  A mantissa does
\* not fit the 32-bit integers of TLC, so it is kept as its digits in base LimbBase,
\* least significant first, no leading zero.  Results below the normal range are not
\* rounded to subnormals; the program's numbers (ticks, percentages) are far from it.
LimbBase == 32768
LimbBits == 15
MantissaBits == 53
MaxExponent == 1024

NaN == [k |-> "nan", s |-> 0, m |-> <<>>, e |-> 0]
PosInf == [k |-> "inf", s |-> 1, m |-> <<>>, e |-> 0]
NegInf == [k |-> "inf", s |-> -1, m |-> <<>>, e |-> 0]
Zero == [k |-> "fin", s |-> 0, m |-> <<>>, e |-> 0]

AbsInt(a) == IF a < 0 THEN -a ELSE a

\* Naturals of any size: digit i of a, 0 beyond its length
Limb(a, i) == IF i <= Len(a) THEN a[i] ELSE 0

RECURSIVE BNorm(_)
BNorm(a) == IF Len(a) > 0 /\ a[Len(a)] = 0 THEN BNorm(SubSeq(a, 1, Len(a) - 1)) ELSE a

RECURSIVE BCmpAt(_, _, _)
BCmpAt(a, b, i) ==
    IF i = 0 THEN 0
    ELSE IF a[i] # b[i] THEN (IF a[i] < b[i] THEN -1 ELSE 1)
         ELSE BCmpAt(a, b, i - 1)

\* -1, 0, 1 as a < b, a = b, a > b
BCmp(a, b) ==
    IF Len(a) # Len(b) THEN (IF Len(a) < Len(b) THEN -1 ELSE 1)
    ELSE BCmpAt(a, b, Len(a))

RECURSIVE BAddAt(_, _, _, _)
BAddAt(a, b, i, carry) ==
    IF i > Len(a) /\ i > Len(b)
    THEN IF carry = 0 THEN <<>> ELSE <<carry>>
    ELSE LET t == Limb(a, i) + Limb(b, i) + carry
         IN  <<t % LimbBase>> \o BAddAt(a, b, i + 1, t \div LimbBase)

BAdd(a, b) == BAddAt(a, b, 1, 0)

RECURSIVE BSubAt(_, _, _, _)
BSubAt(a, b, i, borrow) ==
    IF i > Len(a) THEN <<>>
    ELSE LET t == a[i] - Limb(b, i) - borrow
         IN  <<t % LimbBase>> \o BSubAt(a, b, i + 1, IF t < 0 THEN 1 ELSE 0)

\* a - b, for a >= b
BSub(a, b) == BNorm(BSubAt(a, b, 1, 0))

RECURSIVE BMulSmallAt(_, _, _, _)
BMulSmallAt(a, v, i, carry) ==
    IF i > Len(a)
    THEN IF carry = 0 THEN <<>> ELSE <<carry>>
    ELSE LET t == a[i] * v + carry
         IN  <<t % LimbBase>> \o BMulSmallAt(a, v, i + 1, t \div LimbBase)

\* a * v, for a digit v
BMulSmall(a, v) == IF v = 0 THEN <<>> ELSE BMulSmallAt(a, v, 1, 0)

RECURSIVE BMul(_, _)
BMul(a, b) ==
    IF Len(a) = 0 \/ Len(b) = 0 THEN <<>>
    ELSE BAdd(BMulSmall(a, b[1]),
              LET rest == BMul(a, Tail(b)) IN IF Len(rest) = 0 THEN <<>> ELSE <<0>> \o rest)

RECURSIVE BDivSmallAt(_, _, _, _)
BDivSmallAt(a, v, i, r) ==
    IF i = 0 THEN [q |-> <<>>, r |-> r]
    ELSE LET t == r * LimbBase + a[i]
             lower == BDivSmallAt(a, v, i - 1, t % v)
         IN  [q |-> Append(lower.q, t \div v), r |-> lower.r]

\* quotient and remainder of a by a digit v > 0
BDivSmall(a, v) ==
    LET qr == BDivSmallAt(a, v, Len(a), 0)
    IN  [q |-> BNorm(qr.q), r |-> IF qr.r = 0 THEN <<>> ELSE <<qr.r>>]

Zeros(n) == [i \in 1..n |-> 0]

\* a * 2^n and the whole part of a / 2^n
BShl(a, n) ==
    IF Len(a) = 0 THEN <<>>
    ELSE Zeros(n \div LimbBits) \o BMulSmall(a, 2 ^ (n % LimbBits))

BShr(a, n) ==
    IF n \div LimbBits >= Len(a) THEN <<>>
    ELSE BDivSmall(SubSeq(a, (n \div LimbBits) + 1, Len(a)), 2 ^ (n % LimbBits)).q

RECURSIVE BitLen(_)
BitLen(v) == IF v = 0 THEN 0 ELSE 1 + BitLen(v \div 2)

\* the number of binary digits of a
BBitLen(a) == IF Len(a) = 0 THEN 0 ELSE LimbBits * (Len(a) - 1) + BitLen(a[Len(a)])

\* binary digit i of a, counted from 1 at the low end
BBit(a, i) == (Limb(a, ((i - 1) \div LimbBits) + 1) \div (2 ^ ((i - 1) % LimbBits))) % 2

RECURSIVE TrailingZeros(_)
TrailingZeros(v) == IF v % 2 = 1 THEN 0 ELSE 1 + TrailingZeros(v \div 2)

RECURSIVE BTrailingZeros(_)
BTrailingZeros(a) ==
    IF a[1] = 0 THEN LimbBits + BTrailingZeros(Tail(a)) ELSE TrailingZeros(a[1])

\* the largest digit d with b * d <= t, found from its highest binary digit down
RECURSIVE DigitSearch(_, _, _, _)
DigitSearch(t, b, bit, d) ==
    IF bit < 0 THEN d
    ELSE IF BCmp(BMulSmall(b, d + 2 ^ bit), t) <= 0
         THEN DigitSearch(t, b, bit - 1, d + 2 ^ bit)
         ELSE DigitSearch(t, b, bit - 1, d)

\* long division, one digit of a at a time from digit i down; r is below b
RECURSIVE BDivLongAt(_, _, _, _)
BDivLongAt(a, b, i, r) ==
    IF i = 0 THEN [q |-> <<>>, r |-> r]
    ELSE LET t == BNorm(<<a[i]>> \o r)
             d == DigitSearch(t, b, LimbBits - 1, 0)
             lower == BDivLongAt(a, b, i - 1, BSub(t, BMulSmall(b, d)))
         IN  [q |-> Append(lower.q, d), r |-> lower.r]

\* quotient and remainder of a by b > 0
BDivMod(a, b) ==
    IF Len(b) = 1 THEN BDivSmall(a, b[1])
    ELSE LET qr == BDivLongAt(a, b, Len(a), <<>>)
         IN  [q |-> BNorm(qr.q), r |-> qr.r]

RECURSIVE BFromInt(_)
BFromInt(i) == IF i = 0 THEN <<>> ELSE <<i % LimbBase>> \o BFromInt(i \div LimbBase)

RECURSIVE BToInt(_)
BToInt(a) == IF Len(a) = 0 THEN 0 ELSE a[1] + LimbBase * BToInt(Tail(a))

\* The double s * M * 2^E, M of at most MantissaBits binary digits
Fin(s, M, E) ==
    IF Len(M) = 0 THEN Zero
    ELSE IF BBitLen(M) + E > MaxExponent THEN (IF s > 0 THEN PosInf ELSE NegInf)
         ELSE LET tz == BTrailingZeros(M)
              IN  [k |-> "fin", s |-> s, m |-> BShr(M, tz), e |-> E + tz]

\* The double nearest to s * (M + f) * 2^E, where 0 <= f < 1 and f > 0 just when
\* sticky; ties go to the even mantissa.  With sticky, M has more than MantissaBits
\* binary digits.
Round(s, M, E, sticky) ==
    IF BBitLen(M) <= MantissaBits THEN Fin(s, M, E)
    ELSE LET sh == BBitLen(M) - MantissaBits
             Q == BShr(M, sh)
             c == BCmp(BSub(M, BShl(Q, sh)), BShl(<<1>>, sh - 1))
             up == c > 0 \/ (c = 0 /\ (sticky \/ Q[1] % 2 = 1))
         IN  Fin(s, IF up THEN BAdd(Q, <<1>>) ELSE Q, E + sh)

\* The double of an integer
Num(i) == Fin(IF i < 0 THEN -1 ELSE 1, BFromInt(AbsInt(i)), 0)

\* The integer a double is, for a whole double within the integers of the checker
IntOf(x) == x.s * BToInt(BShl(x.m, x.e))

IsNaN(x) == x.k = "nan"
IsFin(x) == x.k = "fin"

Sign(x) == x.s

Neg(x) == [x EXCEPT !.s = -x.s]

\* The place of the highest binary digit of a finite x # 0: |x| is in [2^(Top-1), 2^Top)
Top(x) == BBitLen(x.m) + x.e

\* x + y; a summand too small to reach the half of the other's last place leaves it
Add(x, y) ==
    CASE IsNaN(x) \/ IsNaN(y) -> NaN
      [] IsFin(x) /\ IsFin(y) ->
            IF x.s = 0 THEN y
            ELSE IF y.s = 0 THEN x
            ELSE IF Top(x) - Top(y) > MantissaBits + 2 THEN x
            ELSE IF Top(y) - Top(x) > MantissaBits + 2 THEN y
            ELSE LET e == IF x.e < y.e THEN x.e ELSE y.e
                     X == BShl(x.m, x.e - e)
                     Y == BShl(y.m, y.e - e)
                     c == BCmp(X, Y)
                 IN  IF x.s = y.s THEN Round(x.s, BAdd(X, Y), e, FALSE)
                     ELSE IF c = 0 THEN Zero
                     ELSE IF c > 0 THEN Round(x.s, BSub(X, Y), e, FALSE)
                     ELSE Round(y.s, BSub(Y, X), e, FALSE)
      [] IsFin(x) -> y
      [] IsFin(y) -> x
      [] OTHER -> IF x.s = y.s THEN x ELSE NaN

\* x - y
Sub(x, y) == Add(x, Neg(y))

\* x * y
Mul(x, y) ==
    CASE IsNaN(x) \/ IsNaN(y) -> NaN
      [] IsFin(x) /\ IsFin(y) -> Round(x.s * y.s, BMul(x.m, y.m), x.e + y.e, FALSE)
      [] OTHER -> IF x.s * y.s = 0 THEN NaN
                  ELSE IF x.s * y.s > 0 THEN PosInf ELSE NegInf

\* x / y
Div(x, y) ==
    CASE IsNaN(x) \/ IsNaN(y) -> NaN
      [] IsFin(x) /\ IsFin(y) ->
            IF y.s = 0
            THEN IF x.s = 0 THEN NaN ELSE IF x.s > 0 THEN PosInf ELSE NegInf
            ELSE IF x.s = 0 THEN Zero
            ELSE LET need == MantissaBits + 2 + BBitLen(y.m) - BBitLen(x.m)
                     sh == IF need > 0 THEN need ELSE 0
                     qr == BDivMod(BShl(x.m, sh), y.m)
                 IN  Round(x.s * y.s, qr.q, x.e - y.e - sh, Len(qr.r) > 0)
      [] IsFin(x) -> Zero
      [] IsFin(y) -> IF y.s >= 0 THEN x ELSE Neg(x)
      [] OTHER -> NaN

\* x < y for finite x and y
FinLt(x, y) ==
    IF x.s # y.s THEN x.s < y.s
    ELSE IF x.s = 0 THEN FALSE
    ELSE IF Top(x) # Top(y) THEN (IF x.s > 0 THEN Top(x) < Top(y) ELSE Top(x) > Top(y))
    ELSE LET e == IF x.e < y.e THEN x.e ELSE y.e
             c == BCmp(BShl(x.m, x.e - e), BShl(y.m, y.e - e))
         IN  IF x.s > 0 THEN c < 0 ELSE c > 0

\* x < y ; false when either side is NaN
Lt(x, y) ==
    CASE IsNaN(x) \/ IsNaN(y) -> FALSE
      [] IsFin(x) /\ IsFin(y) -> FinLt(x, y)
      [] IsFin(x) -> y.s > 0
      [] IsFin(y) -> x.s < 0
      [] OTHER -> x.s < y.s

\* x > y, x <= y, x >= y ; false when either side is NaN
Gt(x, y) == Lt(y, x)
Le(x, y) == ~IsNaN(x) /\ ~IsNaN(y) /\ ~Lt(y, x)
Ge(x, y) == Le(y, x)

\* Math.abs
MathAbs(x) == IF IsNaN(x) THEN NaN ELSE [x EXCEPT !.s = AbsInt(x.s)]

\* Math.max and Math.min of two numbers: NaN when either is NaN
MathMax(x, y) == IF IsNaN(x) \/ IsNaN(y) THEN NaN ELSE IF Lt(x, y) THEN y ELSE x
MathMin(x, y) == IF IsNaN(x) \/ IsNaN(y) THEN NaN ELSE IF Lt(y, x) THEN y ELSE x

\* Math.max(...xs) and Math.min(...xs): -Infinity and +Infinity of no numbers
RECURSIVE MaxOf(_)
MaxOf(xs) == IF Len(xs) = 0 THEN NegInf ELSE MathMax(xs[1], MaxOf(Tail(xs)))
RECURSIVE MinOf(_)
MinOf(xs) == IF Len(xs) = 0 THEN PosInf ELSE MathMin(xs[1], MinOf(Tail(xs)))

\* ------------------------------------------------------------ strings
\* A string is a sequence of one-character strings.
Digits == <<"0", "1", "2", "3", "4", "5", "6", "7", "8", "9">>

IsDigit(c) == \E v \in 1..10 : Digits[v] = c

DigitValue(c) == (CHOOSE v \in 1..10 : Digits[v] = c) - 1

\* String.prototype.startsWith, for a one-character prefix
startsWith(s, c) == Len(s) > 0 /\ s[1] = c

\* String.prototype.slice(1)
slice1(s) == SubSeq(s, 2, Len(s))

\* String.prototype.includes: sub occurs in s as a contiguous run
includes(s, sub) ==
    \E p \in 0..(Len(s) - Len(sub)) : SubSeq(s, p + 1, p + Len(sub)) = sub

\* WhiteSpace and LineTerminator of ECMAScript, the characters String.prototype.trim
\* strips.  A character this text cannot hold is written by its code point.
WhiteSpace ==
    {" ", "\t", "\n", "\r", "\f", "", " ", "﻿", " ",
     "U+2000", "U+2001", "U+2002", "U+2003", "U+2004", "U+2005", "U+2006", "U+2007",
     "U+2008", "U+2009", "U+200A", "U+2028", "U+2029", "U+202F", "U+205F", "U+3000"}

\* String.prototype.trimStart, trimEnd, trim
RECURSIVE trimStart(_)
trimStart(s) == IF Len(s) > 0 /\ s[1] \in WhiteSpace THEN trimStart(Tail(s)) ELSE s
RECURSIVE trimEnd(_)
trimEnd(s) ==
    IF Len(s) > 0 /\ s[Len(s)] \in WhiteSpace THEN trimEnd(SubSeq(s, 1, Len(s) - 1)) ELSE s
trim(s) == trimEnd(trimStart(s))

\* String.prototype.split(','): the pieces between the commas, in order
RECURSIVE split(_, _)
split(s, acc) ==
    IF Len(s) = 0 THEN <<acc>>
    ELSE IF s[1] = "," THEN <<acc>> \o split(Tail(s), <<>>)
         ELSE split(Tail(s), Append(acc, s[1]))

\* Array.prototype.includes
arrayIncludes(arr, x) == \E p \in 1..Len(arr) : arr[p] = x

\* Array.prototype.map(tag => tag.trim())
mapTrim(arr) == [p \in 1..Len(arr) |-> trim(arr[p])]

\* new Date(string).getTime(): the tick a date string names, NaN when it names none.
\* A date string is the decimal numeral of its tick.
RECURSIVE ParseInt(_, _)
ParseInt(s, acc) ==
    IF Len(s) = 0 THEN acc ELSE ParseInt(Tail(s), 10 * acc + DigitValue(s[1]))

DateParse(s) ==
    IF Len(s) > 0 /\ \A p \in 1..Len(s) : IsDigit(s[p])
    THEN Num(ParseInt(s, 0))
    ELSE NaN

\* The decimal numeral of a tick
RECURSIVE Numeral(_)
Numeral(t) ==
    IF t < 10 THEN <<Digits[t + 1]>> ELSE Append(Numeral(t \div 10), Digits[(t % 10) + 1])

\* Date.prototype.getFullYear of the date whose getTime() is t: NaN for an invalid date
getFullYear(t) == IF IsFin(t) THEN Num(IntOf(t) \div TicksPerYear) ELSE NaN

\* new Date(year, 0, 1).getTime(): the first tick of the year
newYearDate(y) == Num(y * TicksPerYear)

\* ---------------------------------------------------------- documents
\* A value yaml.load gives a key of the frontmatter: none (the key is absent), an
\* array of strings, a string or a number.
Undefined == [k |-> "absent", arr |-> <<>>, str |-> <<>>, num |-> 0]
ArrayValue(a) == [k |-> "array", arr |-> a, str |-> <<>>, num |-> 0]
StringValue(s) == [k |-> "string", arr |-> <<>>, str |-> s, num |-> 0]
NumberValue(v) == [k |-> "number", arr |-> <<>>, str |-> <<>>, num |-> v]
\* What a key gives that the mapping does not hold but Object.prototype does: a function
\* or, for __proto__, an object
Inherited == [k |-> "inherited", arr |-> <<>>, str |-> <<>>, num |-> 0]

NoTags == Undefined
TagArray(a) == ArrayValue(a)
TagString(s) == StringValue(s)
TagNumber == NumberValue(7)

NoDate == Undefined
DateString(s) == StringValue(s)
DateNumber(v) == NumberValue(v)

NoStat == [k |-> "null", ctime |-> 0]
Stat(c) == [k |-> "stats", ctime |-> c]

\* The keys of the frontmatter
KeyTags == <<"t", "a", "g", "s">>
KeyCreationDate == <<"c", "r", "e", "a", "t", "i", "o", "n", "_", "d", "a", "t", "e">>

\* The keys every object inherits from Object.prototype
KeyConstructor == <<"c", "o", "n", "s", "t", "r", "u", "c", "t", "o", "r">>
PrototypeKeys ==
    { KeyConstructor,
      <<"t", "o", "S", "t", "r", "i", "n", "g">>,
      <<"t", "o", "L", "o", "c", "a", "l", "e", "S", "t", "r", "i", "n", "g">>,
      <<"v", "a", "l", "u", "e", "O", "f">>,
      <<"h", "a", "s", "O", "w", "n", "P", "r", "o", "p", "e", "r", "t", "y">>,
      <<"i", "s", "P", "r", "o", "t", "o", "t", "y", "p", "e", "O", "f">>,
      <<"p", "r", "o", "p", "e", "r", "t", "y", "I", "s", "E", "n", "u", "m", "e", "r", "a",
        "b", "l", "e">>,
      <<"_", "_", "p", "r", "o", "t", "o", "_", "_">>,
      <<"_", "_", "d", "e", "f", "i", "n", "e", "G", "e", "t", "t", "e", "r", "_", "_">>,
      <<"_", "_", "d", "e", "f", "i", "n", "e", "S", "e", "t", "t", "e", "r", "_", "_">>,
      <<"_", "_", "l", "o", "o", "k", "u", "p", "G", "e", "t", "t", "e", "r", "_", "_">>,
      <<"_", "_", "l", "o", "o", "k", "u", "p", "S", "e", "t", "t", "e", "r", "_", "_">> }

\* A markdown file of the vault: its frontmatter block (fm: "none" when the file has
\* no block, "null" when the block loads as null, "map" when it loads as a mapping),
\* the mapping's value under tags, the mapping's value under creation_date, the text
\* below the block, and what vault.adapter.stat answers for the file.
Doc(fm, tags, dateProp, body, stat) ==
    [fm |-> fm, tags |-> tags, dateProp |-> dateProp, body |-> body, stat |-> stat]

\* The characters yaml.load does not take as they are: U+0000 to U+001F, in order,
\* and U+007F to U+009F, in order (U+0085, which it does take, among them), and the
\* two that are no characters.  The text vault.read gives is decoded from UTF-8 and
\* holds no half of a surrogate pair.
ControlCharacters ==
    <<"U+0000", "U+0001", "U+0002", "U+0003", "U+0004", "U+0005", "U+0006", "U+0007",
      "U+0008", "\t", "\n", "", "\f", "\r", "U+000E", "U+000F", "U+0010", "U+0011",
      "U+0012", "U+0013", "U+0014", "U+0015", "U+0016", "U+0017", "U+0018", "U+0019",
      "U+001A", "U+001B", "U+001C", "U+001D", "U+001E", "U+001F">>

UpperControlCharacters ==
    <<"U+007F", "U+0080", "U+0081", "U+0082", "U+0083", "U+0084", "U+0085", "U+0086",
      "U+0087", "U+0088", "U+0089", "U+008A", "U+008B", "U+008C", "U+008D", "U+008E",
      "U+008F", "U+0090", "U+0091", "U+0092", "U+0093", "U+0094", "U+0095", "U+0096",
      "U+0097", "U+0098", "U+0099", "U+009A", "U+009B", "U+009C", "U+009D", "U+009E",
      "U+009F">>

NonCharacters == <<"U+FFFE", "U+FFFF">>

HexDigits == <<"0", "1", "2", "3", "4", "5", "6", "7", "8", "9", "A", "B", "C", "D", "E", "F">>

\* The escape \xNN of the character whose code is n
HexEscape(n) == <<"\\", "x", HexDigits[(n \div 16) + 1], HexDigits[(n % 16) + 1]>>

\* Where the character c stands in the sequence chars, 0 when it does not
IndexOf(chars, c) ==
    IF \E p \in 1..Len(chars) : chars[p] = c
    THEN CHOOSE p \in 1..Len(chars) : chars[p] = c
    ELSE 0

\* One character of a double-quoted YAML scalar: the quote, the backslash and every
\* character yaml.load rejects in the text are written as their escapes.
EscapedCharacter(c) ==
    IF c = "\n" THEN <<"\\", "n">>
    ELSE IF c = "\t" THEN <<"\\", "t">>
    ELSE IF c = "\r" THEN <<"\\", "r">>
    ELSE IF c = "\f" THEN <<"\\", "f">>
    ELSE IF c = "" THEN <<"\\", "v">>
    ELSE IF c = "\"" THEN <<"\\", "\"">>
    ELSE IF c = "\\" THEN <<"\\", "\\">>
    ELSE IF IndexOf(ControlCharacters, c) > 0
         THEN HexEscape(IndexOf(ControlCharacters, c) - 1)
    ELSE IF IndexOf(UpperControlCharacters, c) > 0
         THEN HexEscape(126 + IndexOf(UpperControlCharacters, c))
    ELSE IF IndexOf(NonCharacters, c) > 0
         THEN <<"\\", "u", "F", "F", "F", HexDigits[14 + IndexOf(NonCharacters, c)]>>
    ELSE <<c>>

\* A double-quoted YAML scalar: the string with its escapes
RECURSIVE Escaped(_)
Escaped(s) ==
    IF Len(s) = 0 THEN <<>> ELSE EscapedCharacter(s[1]) \o Escaped(Tail(s))

Quoted(s) == <<"\"">> \o Escaped(s) \o <<"\"">>

\* The items of a YAML flow sequence
RECURSIVE joinComma(_)
joinComma(arr) ==
    IF Len(arr) = 0 THEN <<>>
    ELSE IF Len(arr) = 1 THEN Quoted(arr[1])
         ELSE Quoted(arr[1]) \o <<",", " ">> \o joinComma(Tail(arr))

\* A value as the frontmatter block spells it
Spelled(value) ==
    CASE value.k = "array" -> <<"[">> \o joinComma(value.arr) \o <<"]">>
      [] value.k = "string" -> Quoted(value.str)
      [] value.k = "number" -> Numeral(value.num)
      [] OTHER -> <<>>

\* A line of the block: key, colon, value
Line(key, value) ==
    IF value.k = "absent" THEN <<>>
    ELSE key \o <<":", " ">> \o Spelled(value) \o <<"\n">>

Fence == <<"-", "-", "-">>

\* The raw content vault.read returns: the frontmatter block between its fences, then
\* the body.
content(doc) ==
    CASE doc.fm = "none" -> doc.body
      [] doc.fm = "null" -> Fence \o <<"\n", "~", "\n">> \o Fence \o <<"\n">> \o doc.body
      [] OTHER ->
            Fence \o <<"\n">>
            \o (IF doc.tags.k = "absent" /\ doc.dateProp.k = "absent"
                THEN <<"{", "}", "\n">>
                ELSE Line(KeyTags, doc.tags) \o Line(KeyCreationDate, doc.dateProp))
            \o Fence \o <<"\n">> \o doc.body

\* extractFrontmatter / parseYAML: the loaded frontmatter, {} when there is no block
extractFrontmatter(doc) ==
    IF doc.fm = "none"
    THEN [isNull |-> FALSE, tags |-> Undefined, dateProp |-> Undefined]
    ELSE [isNull |-> doc.fm = "null", tags |-> doc.tags, dateProp |-> doc.dateProp]

\* frontmatter[key] of a frontmatter that is not null: the mapping's own value, else
\* what the object inherits under the key, else undefined
frontmatterGet(frontmatter, key) ==
    IF key = KeyTags THEN frontmatter.tags
    ELSE IF key = KeyCreationDate THEN frontmatter.dateProp
    ELSE IF key \in PrototypeKeys THEN Inherited
    ELSE Undefined

\* The value is truthy: an array, a function or object, a string that is not empty, a
\* number that is not 0
Truthy(value) ==
    \/ value.k = "array"
    \/ value.k = "inherited"
    \/ value.k = "string" /\ Len(value.str) > 0
    \/ value.k = "number" /\ value.num # 0

\* The strings of an array joined by commas, as Array.prototype.toString joins them
RECURSIVE arrayToString(_)
arrayToString(arr) ==
    IF Len(arr) = 0 THEN <<>>
    ELSE IF Len(arr) = 1 THEN arr[1]
         ELSE arr[1] \o <<",">> \o arrayToString(Tail(arr))

\* new Date(value).getTime() for a truthy value; a function or object is turned into
\* its source text or "[object Object]", which names no date
newDate(value) ==
    CASE value.k = "string" -> DateParse(value.str)
      [] value.k = "number" -> Num(value.num)
      [] value.k = "inherited" -> NaN
      [] OTHER -> DateParse(arrayToString(value.arr))

\* Ticks the documents are dated at
Times == {0, MaxTime}

TagTimeline == <<"t", "i", "m", "e", "l", "i", "n", "e">>
TagHashTimeline == <<"#">> \o TagTimeline
TagW == <<"w">>

\* Documents that differ in where the tag is written; all created at tick 1, but for
\* one whose creation time is 0.
TagDocs ==
    { Doc("none", NoTags, NoDate, <<>>, Stat(1)),
      Doc("none", NoTags, NoDate, <<"x", " ">> \o TagHashTimeline, Stat(0)),
      Doc("none", NoTags, NoDate, <<"x", " ">> \o TagTimeline, Stat(1)),
      Doc("none", NoTags, NoDate, <<"x", " ", "w">>, Stat(1)),
      Doc("map", TagArray(<<TagTimeline, TagW>>), DateString(<<"1">>), <<>>, Stat(1)),
      Doc("map", TagArray(<<TagHashTimeline>>), DateString(<<"1">>), <<>>, Stat(1)),
      Doc("map", TagArray(<<>>), DateString(<<"1">>), <<>>, Stat(1)),
      Doc("map", TagString(<<"w", ",", "\f">> \o TagTimeline \o <<"\n">>),
          DateString(<<"1">>), <<>>, Stat(1)),
      Doc("map", TagString(TagTimeline \o TagW), DateString(<<"1">>), <<>>, Stat(1)),
      Doc("map", TagNumber, DateString(<<"1">>), TagHashTimeline, Stat(1)),
      Doc("null", NoTags, NoDate, TagHashTimeline, Stat(1)) }

\* Documents that differ in where their date comes from; all tagged in the frontmatter,
\* but for one that carries no tag.
DateDocs ==
    { Doc("map", TagArray(<<TagTimeline>>), DateString(Numeral(t)), <<>>, Stat(1)) :
        t \in Times }
    \cup
    { Doc("map", TagArray(<<TagTimeline>>), DateString(<<"x">>), <<>>, Stat(1)),
      Doc("map", TagArray(<<TagTimeline>>), DateNumber(0), <<>>, Stat(TicksPerYear)),
      Doc("map", TagArray(<<TagTimeline>>), NoDate, <<>>, Stat(1)),
      Doc("map", TagArray(<<TagTimeline>>), NoDate, <<>>, NoStat),
      Doc("none", NoTags, NoDate, <<"w">>, Stat(1)) }

\* DEFAULT_SETTINGS
DEFAULT_SETTINGS ==
    [tag |-> TagHashTimeline, dateProperty |-> KeyCreationDate, searchIn |-> "both"]

SearchModes == {"frontmatter", "inline", "both"}

\* What the text field of the tag and the text field of the date property are set to
TagValues == {TagHashTimeline, TagTimeline, TagW}
DatePropertyValues == {KeyCreationDate, <<>>, KeyConstructor}

\* ------------------------------------------------------ pure functions
\* renderTimeline, line 169: the tag without its leading '#'
normalizeTag(tag) == IF startsWith(tag, "#") THEN slice1(tag) ELSE tag

\* renderTimeline, lines 183-192: the check of the frontmatter's tags value against
\* the normalized tag
frontmatterHasTag(frontmatter, normalized) ==
    CASE frontmatter.tags.k = "array" ->
            arrayIncludes(frontmatter.tags.arr, normalized)
      [] frontmatter.tags.k = "string" /\ Len(frontmatter.tags.str) > 0 ->
            arrayIncludes(mapTrim(split(frontmatter.tags.str, <<>>)), normalized)
      [] OTHER -> FALSE

\* renderTimeline, lines 179-199: hasTag for a file whose frontmatter is not null,
\* under the settings st of the iteration and the tag normalized at line 169
hasTag(doc, st, normalized) ==
    LET inFrontmatter ==
            /\ st.searchIn \in {"frontmatter", "both"}
            /\ frontmatterHasTag(extractFrontmatter(doc), normalized)
    IN  \/ inFrontmatter
        \/ /\ ~inFrontmatter
           /\ st.searchIn \in {"inline", "both"}
           /\ includes(content(doc), st.tag)

\* renderTimeline, line 183: reading .tags of a frontmatter that loaded as null throws
tagsReadThrows(doc, st) ==
    st.searchIn \in {"frontmatter", "both"} /\ extractFrontmatter(doc).isNull

\* renderTimeline, line 221: frontmatter[this.settings.dateProperty] is truthy
hasDateProperty(doc, dateProperty) ==
    Truthy(frontmatterGet(extractFrontmatter(doc), dateProperty))

\* renderTimeline, line 222: the date read from the frontmatter
propertyDate(doc, dateProperty) ==
    newDate(frontmatterGet(extractFrontmatter(doc), dateProperty))

\* renderTimeline, line 227: stats?.ctime is truthy
hasCtime(doc) == doc.stat.k = "stats" /\ doc.stat.ctime # 0

\* renderTimeline, lines 227-232: the date taken after stat has answered, now being
\* the tick new Date() gives
statDate(doc, now) == IF hasCtime(doc) THEN Num(doc.stat.ctime) ELSE Num(now)

\* renderTimeline, lines 220-234: the date of a file whose frontmatter is not null
resolveDate(doc, dateProperty, now) ==
    IF hasDateProperty(doc, dateProperty)
    THEN propertyDate(doc, dateProperty)
    ELSE statDate(doc, now)

\* The arrangements of the elements of S in a row, each element once
RECURSIVE Arrangements(_)
Arrangements(S) ==
    IF S = {} THEN {<<>>}
    ELSE UNION { { <<x>> \o rest : rest \in Arrangements(S \ {x}) } : x \in S }

\* The permutations of 1..n
Perms(n) == Arrangements(1..n)

\* renderTimeline, line 246: the orders fileData.sort can leave the resolved files in.
\* With valid dates the comparator b - a is consistent and the sort is stable: latest
\* first, equal dates in their order of selection.  A comparison with an invalid date
\* gives NaN, the comparator is then inconsistent and the order is left to the engine.
sortOrders(rs) ==
    IF \E j \in 1..Len(rs) : IsNaN(rs[j].date)
    THEN Perms(Len(rs))
    ELSE { f \in Perms(Len(rs)) :
             \A a, b \in 1..Len(rs) :
                a < b => \/ Gt(rs[f[a]].date, rs[f[b]].date)
                         \/ rs[f[a]].date = rs[f[b]].date /\ f[a] < f[b] }

\* adjustPosition, line 358
threshold == 2

\* calculatePosition without the inversion of line 348: the oldest date on top
calculatePositionAscending(date, oldest, latest) ==
    LET total == Sub(latest, oldest)
        current == Sub(date, oldest)
        position == Mul(Div(current, total), Num(100))
    IN  MathMin(MathMax(position, Num(0)), Num(100))

\* calculatePosition, lines 346-351
calculatePosition(date, oldest, latest) ==
    LET total == Sub(latest, oldest)
        current == Sub(latest, date)
        position == Mul(Div(current, total), Num(100))
    IN  MathMin(MathMax(position, Num(0)), Num(100))

\* adjustPosition, line 360: occupied.some(pos => Math.abs(pos - newPos) < threshold)
someWithin(occupied, newPos) ==
    \E p \in 1..Len(occupied) : Lt(MathAbs(Sub(occupied[p], newPos)), Num(threshold))

\* The while loop without the break of line 362
RECURSIVE adjustLoopNoBreak(_, _)
adjustLoopNoBreak(newPos, occupied) ==
    IF someWithin(occupied, newPos)
    THEN adjustLoopNoBreak(Add(newPos, Num(threshold)), occupied)
    ELSE newPos

\* adjustPosition, lines 360-363: the while loop, entered with newPos
RECURSIVE adjustLoop(_, _)
adjustLoop(newPos, occupied) ==
    IF someWithin(occupied, newPos)
    THEN LET moved == Add(newPos, Num(threshold))
         IN  IF Gt(moved, Num(100)) THEN moved ELSE adjustLoop(moved, occupied)
    ELSE newPos

\* adjustPosition with its loop left out: the candidate is returned as it came
adjustPositionNoLoop(position, occupied) == position

\* adjustPosition, lines 357-365
adjustPosition(position, occupied) == adjustLoop(position, occupied)

\* -------------------------------------------------------------- state
VARIABLES
    settings,           \* this.settings: tag, dateProperty and searchIn
    normalizedTag,      \* normalizedTag of renderTimeline, computed once at line 169
    called,             \* this.settings as they were when renderTimeline was called
    changes,            \* how many times this.settings was changed since the command
    allFiles,           \* vault.getMarkdownFiles(), with what the vault holds of each
    clock,              \* the tick new Date() answered last, at first the tick of the command
    pc,                 \* where renderTimeline stands
    fileIdx,            \* the for-of loop over allFiles: index of the next file
    files,              \* files: indices into allFiles of the files that have the tag
    pending,            \* the promises of Promise.all, one per entry of files
    fileData,           \* fileData once joined and sorted: file and date (getTime)
    latestDate,         \* latestDate.getTime()
    oldestDate,         \* oldestDate.getTime()
    year,               \* the loop variable of the year labels
    yearLabels,         \* the year labels written to html, in order
    isLeft,             \* isLeft
    occupiedPositions,  \* occupiedPositions
    timelineItems,      \* the timeline items written to html, in order
    notice,             \* the Notice shown, "" when none
    viewData,           \* what view.setViewData received, "" when nothing
    error               \* the exception renderTimeline rejected with, "" when none

vars == <<settings, normalizedTag, called, changes, allFiles, clock, pc, fileIdx, files,
          pending, fileData, latestDate, oldestDate, year, yearLabels, isLeft,
          occupiedPositions, timelineItems, notice, viewData, error>>

\* The sequences of at most n elements of S
SeqUpTo(S, n) == UNION { [1..m -> S] : m \in 0..n }

\* A callback of files.map that waits for its vault.read (line 217); stat is TRUE from
\* the moment the callback waits for adapter.stat (line 226)
Unresolved == [done |-> FALSE, stat |-> FALSE, date |-> NaN]

NOTICE_NO_FILES == "No files found with the specified tag."
NOTICE_NO_PANE == "Unable to open a pane for the timeline."

\* The state when the render-timeline command is triggered and line 169 has run: a
\* vault whose documents differ in their dates under the default settings, or a vault
\* whose documents differ in their tags under any tag and search mode.
Init ==
    /\ \/ /\ settings = DEFAULT_SETTINGS
          /\ allFiles \in SeqUpTo(DateDocs, MaxDocs)
       \/ /\ settings \in [tag : {TagHashTimeline, TagTimeline},
                           dateProperty : {KeyCreationDate}, searchIn : SearchModes]
          /\ allFiles \in SeqUpTo(TagDocs, MaxTagDocs)
    /\ normalizedTag = normalizeTag(settings.tag)
    /\ called = settings
    /\ changes = 0
    /\ clock = MaxTime
    /\ pc = "select"
    /\ fileIdx = 1
    /\ files = <<>>
    /\ pending = <<>>
    /\ fileData = <<>>
    /\ latestDate = NaN
    /\ oldestDate = NaN
    /\ year = NaN
    /\ yearLabels = <<>>
    /\ isLeft = TRUE
    /\ occupiedPositions = <<>>
    /\ timelineItems = <<>>
    /\ notice = ""
    /\ viewData = ""
    /\ error = ""

\* ------------------------------------------------------------ actions
\* renderTimeline is suspended at an await (line 175, 217, 226 or 304) whose promise
\* is pending: other callbacks of the application run, among them those that change
\* this.settings.
Suspended ==
    \/ pc = "select" /\ fileIdx <= Len(allFiles)
    \/ pc = "resolve" /\ \E j \in 1..Len(pending) : ~pending[j].done
    \/ pc = "rendering"

\* The last callback of files.map has returned and renderTimeline is still suspended
\* at await Promise.all (line 216): the jobs queued before its continuation run, among
\* them the continuation of a loadSettings whose loadData has answered.
Joining ==
    /\ pc = "resolve"
    /\ \A j \in 1..Len(pending) : pending[j].done

\* TimelineSettingTab.display, lines 388-391: the tag field is edited.
SetTag(value) ==
    /\ Suspended
    /\ changes < MaxSettingChanges
    /\ value # settings.tag
    /\ settings' = [settings EXCEPT !.tag = value]
    /\ changes' = changes + 1
    /\ UNCHANGED <<normalizedTag, called, allFiles, clock, pc, fileIdx, files, pending,
                   fileData, latestDate, oldestDate, year, yearLabels, isLeft,
                   occupiedPositions, timelineItems, notice, viewData, error>>

\* TimelineSettingTab.display, lines 399-402: the date property field is edited.
SetDateProperty(value) ==
    /\ Suspended
    /\ changes < MaxSettingChanges
    /\ value # settings.dateProperty
    /\ settings' = [settings EXCEPT !.dateProperty = value]
    /\ changes' = changes + 1
    /\ UNCHANGED <<normalizedTag, called, allFiles, clock, pc, fileIdx, files, pending,
                   fileData, latestDate, oldestDate, year, yearLabels, isLeft,
                   occupiedPositions, timelineItems, notice, viewData, error>>

\* TimelineSettingTab.display, lines 412-415: another search mode is chosen.
SetSearchIn(value) ==
    /\ Suspended
    /\ changes < MaxSettingChanges
    /\ value # settings.searchIn
    /\ settings' = [settings EXCEPT !.searchIn = value]
    /\ changes' = changes + 1
    /\ UNCHANGED <<normalizedTag, called, allFiles, clock, pc, fileIdx, files, pending,
                   fileData, latestDate, oldestDate, year, yearLabels, isLeft,
                   occupiedPositions, timelineItems, notice, viewData, error>>

\* What loadData answers: null when nothing was saved, else the object saved last
NoData == [isNull |-> TRUE, tag |-> <<>>, dateProperty |-> <<>>, searchIn |-> ""]
Data(st) ==
    [isNull |-> FALSE, tag |-> st.tag, dateProperty |-> st.dateProperty,
     searchIn |-> st.searchIn]
SavedData ==
    {NoData, Data([tag |-> TagTimeline, dateProperty |-> <<>>, searchIn |-> "inline"])}

\* loadSettings, lines 151-154: this.settings becomes the saved data over the defaults;
\* a load that leaves the same settings changes nothing.
LoadSettings(data) ==
    /\ Suspended \/ Joining
    /\ changes < MaxSettingChanges
    /\ settings' = IF data.isNull
                   THEN DEFAULT_SETTINGS
                   ELSE [tag |-> data.tag, dateProperty |-> data.dateProperty,
                         searchIn |-> data.searchIn]
    /\ settings' # settings
    /\ changes' = changes + 1
    /\ UNCHANGED <<normalizedTag, called, allFiles, clock, pc, fileIdx, files, pending,
                   fileData, latestDate, oldestDate, year, yearLabels, isLeft,
                   occupiedPositions, timelineItems, notice, viewData, error>>

\* Lines 174-205, one iteration whose vault.read succeeds: the settings are read as
\* they are when the read has completed, the normalized tag as line 169 left it.
SelectFile ==
    /\ pc = "select"
    /\ fileIdx <= Len(allFiles)
    /\ IF tagsReadThrows(allFiles[fileIdx], settings)
       THEN /\ pc' = "rejected"
            /\ error' = "TypeError"
            /\ UNCHANGED <<fileIdx, files>>
       ELSE /\ files' = IF hasTag(allFiles[fileIdx], settings, normalizedTag)
                        THEN Append(files, fileIdx)
                        ELSE files
            /\ fileIdx' = fileIdx + 1
            /\ UNCHANGED <<pc, error>>
    /\ UNCHANGED <<settings, normalizedTag, called, changes, allFiles, clock, pending,
                   fileData, latestDate, oldestDate, year, yearLabels, isLeft,
                   occupiedPositions, timelineItems, notice, viewData>>

\* Line 175, vault.read rejects: nothing catches it and renderTimeline rejects.
SelectReadFails ==
    /\ pc = "select"
    /\ fileIdx <= Len(allFiles)
    /\ pc' = "rejected"
    /\ error' = "read"
    /\ UNCHANGED <<settings, normalizedTag, called, changes, allFiles, clock, fileIdx,
                   files, pending, fileData, latestDate, oldestDate, year, yearLabels,
                   isLeft, occupiedPositions, timelineItems, notice, viewData>>

\* Lines 209-213: no file has the tag.
NoFilesFound ==
    /\ pc = "select"
    /\ fileIdx > Len(allFiles)
    /\ Len(files) = 0
    /\ notice' = NOTICE_NO_FILES
    /\ pc' = "returned"
    /\ UNCHANGED <<settings, normalizedTag, called, changes, allFiles, clock, fileIdx,
                   files, pending, fileData, latestDate, oldestDate, year, yearLabels,
                   isLeft, occupiedPositions, timelineItems, viewData, error>>

\* StartResolve with the early return of lines 209-213 left out
StartResolveUnguarded ==
    /\ pc = "select"
    /\ fileIdx > Len(allFiles)
    /\ pending' = [j \in 1..Len(files) |-> Unresolved]
    /\ pc' = "resolve"
    /\ UNCHANGED <<settings, normalizedTag, called, changes, allFiles, clock, fileIdx,
                   files, fileData, latestDate, oldestDate, year, yearLabels, isLeft,
                   occupiedPositions, timelineItems, notice, viewData, error>>

\* Line 216: files.map starts one callback per file; each runs up to its vault.read.
StartResolve ==
    /\ pc = "select"
    /\ fileIdx > Len(allFiles)
    /\ Len(files) # 0
    /\ pending' = [j \in 1..Len(files) |-> Unresolved]
    /\ pc' = "resolve"
    /\ UNCHANGED <<settings, normalizedTag, called, changes, allFiles, clock, fileIdx,
                   files, fileData, latestDate, oldestDate, year, yearLabels, isLeft,
                   occupiedPositions, timelineItems, notice, viewData, error>>

\* Lines 217-226, the callback of one file from the completion of its vault.read: the
\* date property is read from the settings as they are now; the date is taken from
\* the frontmatter, or the callback goes on to wait for adapter.stat.
ResolveRead(j) ==
    /\ pc = "resolve"
    /\ ~pending[j].done
    /\ ~pending[j].stat
    /\ IF extractFrontmatter(allFiles[files[j]]).isNull
       THEN /\ pc' = "rejected"
            /\ error' = "TypeError"
            /\ UNCHANGED pending
       ELSE /\ pending' = [pending EXCEPT ![j] =
                  IF hasDateProperty(allFiles[files[j]], settings.dateProperty)
                  THEN [done |-> TRUE, stat |-> FALSE,
                        date |-> propertyDate(allFiles[files[j]], settings.dateProperty)]
                  ELSE [done |-> FALSE, stat |-> TRUE, date |-> NaN]]
            /\ UNCHANGED <<pc, error>>
    /\ UNCHANGED <<settings, normalizedTag, called, changes, allFiles, clock, fileIdx,
                   files, fileData, latestDate, oldestDate, year, yearLabels, isLeft,
                   occupiedPositions, timelineItems, notice, viewData>>

\* Line 217, vault.read rejects: Promise.all rejects and renderTimeline with it.
ResolveReadFails(j) ==
    /\ pc = "resolve"
    /\ ~pending[j].done
    /\ ~pending[j].stat
    /\ pc' = "rejected"
    /\ error' = "read"
    /\ UNCHANGED <<settings, normalizedTag, called, changes, allFiles, clock, fileIdx,
                   files, pending, fileData, latestDate, oldestDate, year, yearLabels,
                   isLeft, occupiedPositions, timelineItems, notice, viewData>>

\* Lines 226-242, the callback from the answer of adapter.stat: the creation time, or
\* what new Date() gives at this moment, a tick not before the one it gave last.
ResolveStat(j) ==
    /\ pc = "resolve"
    /\ ~pending[j].done
    /\ pending[j].stat
    /\ \E now \in clock..(MaxTime + MaxElapsed) :
          /\ hasCtime(allFiles[files[j]]) => now = clock
          /\ clock' = now
          /\ pending' = [pending EXCEPT ![j] =
                [done |-> TRUE, stat |-> TRUE, date |-> statDate(allFiles[files[j]], now)]]
    /\ UNCHANGED <<settings, normalizedTag, called, changes, allFiles, pc, fileIdx, files,
                   fileData, latestDate, oldestDate, year, yearLabels, isLeft,
                   occupiedPositions, timelineItems, notice, viewData, error>>

\* Line 226, adapter.stat rejects: Promise.all rejects and renderTimeline with it.
ResolveStatFails(j) ==
    /\ pc = "resolve"
    /\ ~pending[j].done
    /\ pending[j].stat
    /\ pc' = "rejected"
    /\ error' = "stat"
    /\ UNCHANGED <<settings, normalizedTag, called, changes, allFiles, clock, fileIdx,
                   files, pending, fileData, latestDate, oldestDate, year, yearLabels,
                   isLeft, occupiedPositions, timelineItems, notice, viewData>>

\* SortAndRange without the await of Promise.all: it runs while promises are pending
SortAndRangeUnjoined ==
    /\ pc = "resolve"
    /\ \E f \in sortOrders(pending) :
          fileData' = [a \in 1..Len(pending) |->
                          [file |-> files[f[a]], date |-> pending[f[a]].date]]
    /\ latestDate' = MaxOf([j \in 1..Len(pending) |-> pending[j].date])
    /\ oldestDate' = MinOf([j \in 1..Len(pending) |-> pending[j].date])
    /\ year' = getFullYear(oldestDate')
    /\ pc' = "labels"
    /\ UNCHANGED <<settings, normalizedTag, called, changes, allFiles, clock, fileIdx,
                   files, pending, yearLabels, isLeft, occupiedPositions, timelineItems,
                   notice, viewData, error>>

\* Lines 245-262: every promise is fulfilled; sort, date range, first year.
SortAndRange ==
    /\ pc = "resolve"
    /\ \A j \in 1..Len(pending) : pending[j].done
    /\ \E f \in sortOrders(pending) :
          fileData' = [a \in 1..Len(pending) |->
                          [file |-> files[f[a]], date |-> pending[f[a]].date]]
    /\ latestDate' = MaxOf([j \in 1..Len(pending) |-> pending[j].date])
    /\ oldestDate' = MinOf([j \in 1..Len(pending) |-> pending[j].date])
    /\ year' = getFullYear(oldestDate')
    /\ pc' = "labels"
    /\ UNCHANGED <<settings, normalizedTag, called, changes, allFiles, clock, fileIdx,
                   files, pending, yearLabels, isLeft, occupiedPositions, timelineItems,
                   notice, viewData, error>>

\* Lines 262-270, one iteration of the year loop.
YearLabel ==
    /\ pc = "labels"
    /\ Le(year, getFullYear(latestDate))
    /\ yearLabels' = Append(yearLabels,
            [year |-> IntOf(year),
             position |-> calculatePosition(newYearDate(IntOf(year)), oldestDate,
                                            latestDate)])
    /\ year' = Add(year, Num(1))
    /\ UNCHANGED <<settings, normalizedTag, called, changes, allFiles, clock, pc, fileIdx,
                   files, pending, fileData, latestDate, oldestDate, isLeft,
                   occupiedPositions, timelineItems, notice, viewData, error>>

\* Lines 262 and 272-275: the year loop ends; isLeft and occupiedPositions start.
LabelsDone ==
    /\ pc = "labels"
    /\ ~Le(year, getFullYear(latestDate))
    /\ isLeft' = TRUE
    /\ occupiedPositions' = <<>>
    /\ pc' = "items"
    /\ UNCHANGED <<settings, normalizedTag, called, changes, allFiles, clock, fileIdx,
                   files, pending, fileData, latestDate, oldestDate, year, yearLabels,
                   timelineItems, notice, viewData, error>>

\* PlaceItem with the candidate, not the adjusted position, pushed to occupiedPositions
PlaceItemRawOccupied ==
    /\ pc = "items"
    /\ Len(timelineItems) < Len(fileData)
    /\ LET data == fileData[Len(timelineItems) + 1]
           sideClass == IF isLeft THEN "left" ELSE "right"
           candidate == calculatePosition(data.date, oldestDate, latestDate)
           position == adjustPosition(candidate, occupiedPositions)
       IN  /\ isLeft' = ~isLeft
           /\ occupiedPositions' = Append(occupiedPositions, candidate)
           /\ timelineItems' = Append(timelineItems,
                    [file |-> data.file, date |-> data.date, sideClass |-> sideClass,
                     candidate |-> candidate, position |-> position])
    /\ UNCHANGED <<settings, normalizedTag, called, changes, allFiles, clock, pc, fileIdx,
                   files, pending, fileData, latestDate, oldestDate, year, yearLabels,
                   notice, viewData, error>>

\* Lines 277-297, one call of the forEach callback.
PlaceItem ==
    /\ pc = "items"
    /\ Len(timelineItems) < Len(fileData)
    /\ LET data == fileData[Len(timelineItems) + 1]
           sideClass == IF isLeft THEN "left" ELSE "right"
           candidate == calculatePosition(data.date, oldestDate, latestDate)
           position == adjustPosition(candidate, occupiedPositions)
       IN  /\ isLeft' = ~isLeft
           /\ occupiedPositions' = Append(occupiedPositions, position)
           /\ timelineItems' = Append(timelineItems,
                    [file |-> data.file, date |-> data.date, sideClass |-> sideClass,
                     candidate |-> candidate, position |-> position])
    /\ UNCHANGED <<settings, normalizedTag, called, changes, allFiles, clock, pc, fileIdx,
                   files, pending, fileData, latestDate, oldestDate, year, yearLabels,
                   notice, viewData, error>>

\* Lines 298-309: the html is complete; with an active view, setViewData is called
\* with it and renderTimeline waits for the promise (line 304); with none, the Notice.
Render(hasView) ==
    /\ pc = "items"
    /\ Len(timelineItems) = Len(fileData)
    /\ IF hasView
       THEN viewData' = "timeline" /\ pc' = "rendering" /\ UNCHANGED notice
       ELSE notice' = NOTICE_NO_PANE /\ pc' = "returned" /\ UNCHANGED viewData
    /\ UNCHANGED <<settings, normalizedTag, called, changes, allFiles, clock, fileIdx,
                   files, pending, fileData, latestDate, oldestDate, year, yearLabels,
                   isLeft, occupiedPositions, timelineItems, error>>

\* Lines 304-306: the promise of setViewData is fulfilled and renderTimeline returns.
RenderDone ==
    /\ pc = "rendering"
    /\ pc' = "returned"
    /\ UNCHANGED <<settings, normalizedTag, called, changes, allFiles, clock, fileIdx,
                   files, pending, fileData, latestDate, oldestDate, year, yearLabels,
                   isLeft, occupiedPositions, timelineItems, notice, viewData, error>>

\* Line 304, the promise of setViewData is rejected: renderTimeline rejects, the view
\* keeping what it was given.
RenderFails ==
    /\ pc = "rendering"
    /\ pc' = "rejected"
    /\ error' = "setViewData"
    /\ UNCHANGED <<settings, normalizedTag, called, changes, allFiles, clock, fileIdx,
                   files, pending, fileData, latestDate, oldestDate, year, yearLabels,
                   isLeft, occupiedPositions, timelineItems, notice, viewData>>

\* The settings are changed while renderTimeline is suspended.
ChangeSettings ==
    \/ \E value \in TagValues : SetTag(value)
    \/ \E value \in DatePropertyValues : SetDateProperty(value)
    \/ \E value \in SearchModes : SetSearchIn(value)
    \/ \E data \in SavedData : LoadSettings(data)

Next ==
    \/ ChangeSettings
    \/ SelectFile
    \/ SelectReadFails
    \/ NoFilesFound
    \/ StartResolve
    \/ \E j \in 1..Len(pending) : ResolveRead(j)
    \/ \E j \in 1..Len(pending) : ResolveReadFails(j)
    \/ \E j \in 1..Len(pending) : ResolveStat(j)
    \/ \E j \in 1..Len(pending) : ResolveStatFails(j)
    \/ SortAndRange
    \/ YearLabel
    \/ LabelsDone
    \/ PlaceItem
    \/ \E hasView \in BOOLEAN : Render(hasView)
    \/ RenderDone
    \/ RenderFails

Spec == Init /\ [][Next]_vars

\* ------------------------------------------------------ the layout alone
\* Ticks the documents are dated at when only the layout runs: two at the old end of
\* the range and two at the recent end, a collision apart, and one between them whose
\* position, 62.71186440677966 in the range from 1 to MaxTime, is less than 2 away
\* from what adding 2 to it gives.
LayoutTimes == {0, 1, 23, MaxTime - 1, MaxTime}

\* A document tagged in the frontmatter and dated there at tick t.
DatedDoc(t) == Doc("map", TagArray(<<TagTimeline>>), DateString(Numeral(t)), <<>>, Stat(1))

\* The state in which Promise.all is fulfilled (line 243) for a vault of up to MaxItems
\* documents, all selected and all dated in their frontmatter, which the vault lists
\* from the oldest to the latest.
LayoutInit ==
    /\ settings = DEFAULT_SETTINGS
    /\ normalizedTag = normalizeTag(DEFAULT_SETTINGS.tag)
    /\ called = DEFAULT_SETTINGS
    /\ changes = 0
    /\ \E n \in 1..MaxItems :
          \E ts \in [1..n -> LayoutTimes] :
             /\ \A j \in 1..(n - 1) : ts[j] <= ts[j + 1]
             /\ allFiles = [j \in 1..n |-> DatedDoc(ts[j])]
             /\ files = [j \in 1..n |-> j]
             /\ fileIdx = n + 1
             /\ pending = [j \in 1..n |->
                    [done |-> TRUE, stat |-> FALSE,
                     date |-> resolveDate(DatedDoc(ts[j]), KeyCreationDate, MaxTime)]]
    /\ clock = MaxTime
    /\ pc = "resolve"
    /\ fileData = <<>>
    /\ latestDate = NaN
    /\ oldestDate = NaN
    /\ year = NaN
    /\ yearLabels = <<>>
    /\ isLeft = TRUE
    /\ occupiedPositions = <<>>
    /\ timelineItems = <<>>
    /\ notice = ""
    /\ viewData = ""
    /\ error = ""

\* Lines 245-310: from the sort to the return of renderTimeline.
LayoutNext ==
    \/ SortAndRange
    \/ YearLabel
    \/ LabelsDone
    \/ PlaceItem
    \/ \E hasView \in BOOLEAN : Render(hasView)
    \/ RenderDone
    \/ RenderFails

LayoutSpec == LayoutInit /\ [][LayoutNext]_vars


\* ------------------------------------------------------------- claims
\* The candidate after k increments by the threshold, as line 361 adds them.
RECURSIVE Incremented(_, _)
Incremented(candidate, k) ==
    IF k = 0 THEN candidate ELSE Add(Incremented(candidate, k - 1), Num(2))

\* The layout pass has placed every item.
LayoutDone ==
    pc \in {"items", "rendering", "returned"} /\ Len(timelineItems) = Len(fileData)

\* C1: among the items placed so far, hence among all of them once the layout pass is
\* over, any two distinct items whose final positions are both <= 100 lie at least
\* the threshold (2) apart.
C1_Separation ==
    \A a, b \in 1..Len(timelineItems) :
        (/\ a # b
         /\ Le(timelineItems[a].position, Num(100))
         /\ Le(timelineItems[b].position, Num(100)))
        => Ge(MathAbs(Sub(timelineItems[a].position, timelineItems[b].position)), Num(2))

\* C1 witness: two items are placed at positions <= 100, the later of them two
\* increments off the candidate it shares with the earlier one, no other item being
\* near: one increment brought it less than 2 away from the earlier one.
C1_Witness ==
    \E a, b \in 1..Len(timelineItems) :
        /\ a < b
        /\ Le(timelineItems[a].position, Num(100))
        /\ Le(timelineItems[b].position, Num(100))
        /\ timelineItems[b].candidate = timelineItems[a].position
        /\ timelineItems[b].position = Incremented(timelineItems[b].candidate, 2)
        /\ \A h \in 1..(b - 1) :
              h # a => Gt(MathAbs(Sub(timelineItems[h].position,
                                      timelineItems[b].candidate)), Num(6))

\* C2: when the selected items share one date (oldest = latest), calculatePosition
\* gives 0 for every item and for every year label.
C2_DegenerateRangeIsZero ==
    (/\ pc \in {"labels", "items", "rendering", "returned"}
     /\ IsFin(latestDate)
     /\ latestDate = oldestDate)
    => /\ \A a \in 1..Len(timelineItems) : timelineItems[a].candidate = Num(0)
       /\ \A a \in 1..Len(yearLabels) : yearLabels[a].position = Num(0)

\* C3: every placed item's final position is >= 0, and it is <= 100 unless
\* adjustPosition moved it; the candidate calculatePosition gave is never above 100.
C3_PositionBounds ==
    \A a \in 1..Len(timelineItems) :
        /\ Ge(timelineItems[a].position, Num(0))
        /\ \/ Le(timelineItems[a].position, Num(100))
           \/ timelineItems[a].position # timelineItems[a].candidate
        /\ Le(timelineItems[a].candidate, Num(100))

\* No two candidates of the placed items are within the threshold of each other.
NoCandidatesWithinThreshold ==
    \A a, b \in 1..Len(timelineItems) :
        a # b => ~Lt(MathAbs(Sub(timelineItems[a].candidate, timelineItems[b].candidate)),
                     Num(2))

\* C4: if no two candidates are within the threshold of each other, every item keeps
\* its candidate and the final positions do not decrease along the processing order.
C4_OrderPreserved ==
    (LayoutDone /\ NoCandidatesWithinThreshold)
    => /\ \A a \in 1..Len(timelineItems) :
              timelineItems[a].position = timelineItems[a].candidate
       /\ \A a \in 1..(Len(timelineItems) - 1) :
              Le(timelineItems[a].position, timelineItems[a + 1].position)

\* The tag with a leading '#' stripped.
C5_Stripped(tag) == IF tag[1] = "#" THEN [q \in 1..(Len(tag) - 1) |-> tag[q + 1]] ELSE tag

\* The piece str[a..b] lies between two commas (or an end of str) and holds none.
C5_IsPiece(str, a, b) ==
    /\ a = 1 \/ str[a - 1] = ","
    /\ b = Len(str) \/ str[b + 1] = ","
    /\ \A q \in a..b : str[q] # ","

\* The metadata tag field, an array or a comma-separated string, contains the word.
C5_MetadataContains(doc, word) ==
    /\ doc.fm = "map"
    /\ \/ /\ doc.tags.k = "array"
          /\ \E q \in 1..Len(doc.tags.arr) : doc.tags.arr[q] = word
       \/ /\ doc.tags.k = "string"
          /\ \E a, b \in 1..Len(doc.tags.str) :
                /\ a <= b
                /\ C5_IsPiece(doc.tags.str, a, b)
                /\ \E u, v \in a..b :
                      /\ v - u + 1 = Len(word)
                      /\ \A q \in 1..Len(word) : doc.tags.str[u + q - 1] = word[q]
                      /\ \A q \in a..(u - 1) : doc.tags.str[q] \in WhiteSpace
                      /\ \A q \in (v + 1)..b : doc.tags.str[q] \in WhiteSpace

\* The raw content contains the word, character for character.
C5_RawContains(doc, word) ==
    \E p \in 0..Len(content(doc)) :
        /\ p + Len(word) <= Len(content(doc))
        /\ \A q \in 1..Len(word) : content(doc)[p + q] = word[q]

\* What the claim says of a document: selected or not.
C5_Expected(doc, st) ==
    \/ /\ st.searchIn \in {"frontmatter", "both"}
       /\ C5_MetadataContains(doc, C5_Stripped(st.tag))
    \/ /\ st.searchIn \in {"inline", "both"}
       /\ C5_RawContains(doc, st.tag)

\* C5: a document the selection loop goes over is selected if and only if the search
\* mode covers the metadata and its tag field contains the stripped tag, or the search
\* mode covers the inline text and its raw content contains the tag as configured;
\* mode and tag are those of the configuration renderTimeline was called with.
C5_SelectionRule ==
    [][(pc = "select" /\ fileIdx' = fileIdx + 1)
       => (Len(files') > Len(files) <=> C5_Expected(allFiles[fileIdx], called))]_vars

\* The dates the claim's cascade allows a document under the date property dp: the
\* property when it is there and names a date, else the creation time when stat has
\* one, else the current time, a tick between the command and the last reading of the
\* clock.
C6_Cascade(doc, dp, now) ==
    LET prop == IF doc.fm = "map" THEN frontmatterGet(extractFrontmatter(doc), dp)
                ELSE Undefined
    IN  IF prop.k = "number" THEN {Num(prop.num)}
        ELSE IF prop.k = "string" /\ ~IsNaN(DateParse(prop.str)) THEN {DateParse(prop.str)}
        ELSE IF doc.stat.k = "stats" THEN {Num(doc.stat.ctime)}
        ELSE {Num(t) : t \in MaxTime..now}

\* The same, under any date property the settings took during the run.
C6_Expected(doc, now) == UNION { C6_Cascade(doc, dp, now) : dp \in DatePropertyValues }

\* C6: every resolved date is a valid timestamp, the one the cascade gives, and no
\* invalid timestamp reaches the sort, the date range or calculatePosition.
C6_ValidDates ==
    /\ \A j \in 1..Len(pending) :
          pending[j].done =>
             /\ ~IsNaN(pending[j].date)
             /\ pending[j].date \in C6_Expected(allFiles[files[j]], clock)
    /\ \A a \in 1..Len(fileData) : ~IsNaN(fileData[a].date)
    /\ pc \in {"labels", "items"} => ~IsNaN(latestDate) /\ ~IsNaN(oldestDate)

\* C7: a read that fails does not abort the run.
C7_ReadFailureSkipped == ~(pc = "rejected" /\ error = "read")

\* C8: the 'nothing found' notice is shown exactly when the selection matched no
\* document, and then the run has returned with no date resolved, nothing laid out and
\* nothing written to the view; when a document matched, the run goes on to the
\* layout and does not return before every item is placed.
C8_EmptyResult ==
    /\ notice = NOTICE_NO_FILES =>
          /\ Len(files) = 0
          /\ pc = "returned"
          /\ Len(pending) = 0 /\ Len(fileData) = 0
          /\ Len(yearLabels) = 0 /\ Len(timelineItems) = 0 /\ Len(occupiedPositions) = 0
          /\ viewData = ""
    /\ (pc \notin {"select", "rejected"} /\ Len(files) = 0) => notice = NOTICE_NO_FILES
    /\ (pc = "returned" /\ Len(files) > 0) =>
          /\ notice # NOTICE_NO_FILES
          /\ Len(timelineItems) = Len(files)

\* C8 witness: the vault holds documents, none matched, and the notice is shown.
C8_Witness == Len(allFiles) > 0 /\ notice = NOTICE_NO_FILES

\* The items' dates, in selection order.
ItemDates == [j \in 1..Len(pending) |-> pending[j].date]

\* C9: once the year loop is over there is exactly one label for each year from the
\* earliest item's year to the latest item's year, in order, and each label's position
\* is calculatePosition of the year's first tick, a value in [0,100].
C9_YearLabels ==
    pc \in {"items", "rendering", "returned"} /\ Len(fileData) > 0 =>
        LET first == getFullYear(MinOf(ItemDates))
            last == getFullYear(MaxOf(ItemDates))
        IN  /\ IsFin(first) /\ IsFin(last)
            /\ Len(yearLabels) = IntOf(last) - IntOf(first) + 1
            /\ \A a \in 1..Len(yearLabels) :
                  /\ yearLabels[a].year = IntOf(first) + a - 1
                  /\ yearLabels[a].position =
                        calculatePosition(newYearDate(yearLabels[a].year),
                                          MinOf(ItemDates), MaxOf(ItemDates))
                  /\ Ge(yearLabels[a].position, Num(0))
                  /\ Le(yearLabels[a].position, Num(100))

\* C10: the items are placed in descending date order, and the item at index i of
\* that order (from 0) is on the left when i is even and on the right when i is odd.
C10_SidesAlternate ==
    /\ \A a \in 1..Len(timelineItems) :
          timelineItems[a].sideClass = (IF a % 2 = 1 THEN "left" ELSE "right")
    /\ \A a \in 1..(Len(timelineItems) - 1) :
          Ge(timelineItems[a].date, timelineItems[a + 1].date)

\* The date range is computed, or a position has been calculated or adjusted.
LayoutStarted ==
    \/ pc \in {"labels", "items"}
    \/ Len(fileData) > 0 \/ Len(yearLabels) > 0 \/ Len(timelineItems) > 0

\* Every selected document has its date.
AllResolved ==
    /\ Len(pending) = Len(files)
    /\ \A j \in 1..Len(pending) : pending[j].done

\* The callback of file j took its date from new Date().
TookClock(j) ==
    pending[j].done /\ pending[j].stat /\ ~hasCtime(allFiles[files[j]])

\* The date of file j is one its frontmatter or its creation time gives.
C11_DateOfDocument(j) ==
    IF pending[j].stat
    THEN pending[j].date = Num(allFiles[files[j]].stat.ctime)
    ELSE \E dp \in DatePropertyValues :
            /\ hasDateProperty(allFiles[files[j]], dp)
            /\ pending[j].date = propertyDate(allFiles[files[j]], dp)

\* C11 as stated: every date resolution has completed before the date range is computed
\* and before the first position is calculated, and the layout does not depend on the
\* order in which the reads completed.  Two documents that both take the current time
\* exchange their dates when their reads complete in the other order, so the layout is
\* free of the order only if such documents always get the same date.
C11_JoinedAndOrderFree ==
    /\ LayoutStarted => AllResolved
    /\ \A j \in 1..Len(pending) :
          (pending[j].done /\ ~TookClock(j)) => C11_DateOfDocument(j)
    /\ \A i, j \in 1..Len(pending) :
          (TookClock(i) /\ TookClock(j)) => pending[i].date = pending[j].date

\* C11 amended: every date resolution has completed before the date range is computed
\* and before the first position is calculated; the date of a document that took it
\* from its frontmatter or its creation time is the one these give, the date of a
\* document that took the current time is a tick between the command and the last
\* reading of the clock; and fileData holds each selected file once, with its resolved
\* date.
C11_JoinedBeforeLayout ==
    /\ LayoutStarted => AllResolved
    /\ \A j \in 1..Len(pending) :
          pending[j].done =>
             IF TookClock(j)
             THEN \E t \in MaxTime..clock : pending[j].date = Num(t)
             ELSE C11_DateOfDocument(j)
    /\ LayoutStarted =>
          /\ Len(fileData) = Len(files)
          /\ \A j \in 1..Len(files) :
                \E a \in 1..Len(fileData) :
                   fileData[a] = [file |-> files[j], date |-> pending[j].date]

\* C11 witness: the layout has started over two or more documents, all resolved, two
\* of which took their dates from the clock, one after it had moved on.
C11_Witness ==
    /\ pc = "items"
    /\ Len(pending) >= 2
    /\ AllResolved
    /\ \E i, j \in 1..Len(pending) :
          /\ TookClock(i) /\ TookClock(j)
          /\ pending[i].date = Num(MaxTime)
          /\ pending[j].date = Num(MaxTime + 1)

\* The positions of the items placed before item a.
PlacedBefore(a) == [b \in 1..(a - 1) |-> timelineItems[b].position]

\* The loop of adjustPosition stops at the value v: no position of occ lies strictly
\* within the threshold of v, or v exceeds 100.
C12_Stops(v, occ) ==
    \/ Gt(v, Num(100))
    \/ \A p \in 1..Len(occ) : ~Lt(MathAbs(Sub(occ[p], v)), Num(2))

\* C12: every item's final position is its candidate plus k times the threshold for
\* the smallest k >= 0 at which the loop stops, measured against the final positions
\* of the items placed before it; and occupiedPositions holds exactly these final
\* positions, in order.
C12_SmallestShift ==
    /\ \A a \in 1..Len(timelineItems) :
          \E k \in 0..51 :
             /\ timelineItems[a].position = Incremented(timelineItems[a].candidate, k)
             /\ C12_Stops(Incremented(timelineItems[a].candidate, k), PlacedBefore(a))
             /\ \A h \in 0..(k - 1) :
                   ~C12_Stops(Incremented(timelineItems[a].candidate, h), PlacedBefore(a))
    /\ pc = "items" =>
          occupiedPositions = [a \in 1..Len(timelineItems) |-> timelineItems[a].position]

\* C12 witness: an item was moved by two thresholds or more, past an earlier item that
\* had itself been moved off its candidate.
C12_Witness ==
    \E a \in 1..Len(timelineItems) :
        /\ Ge(Sub(timelineItems[a].position, timelineItems[a].candidate), Num(4))
        /\ \E b \in 1..(a - 1) : timelineItems[b].position # timelineItems[b].candidate

\* The date range is computed and is not degenerate.
ProperRange ==
    /\ pc \in {"labels", "items", "rendering", "returned"}
    /\ IsFin(oldestDate) /\ IsFin(latestDate)
    /\ Lt(oldestDate, latestDate)

\* The date range has just been computed (line 257); it does not change afterwards.
RangeComputed == pc = "labels" /\ yearLabels = <<>>

\* C13: when oldest < latest, calculatePosition maps the latest date to 0 and the
\* oldest date to 100, and from every tick of the range to the next the position does
\* not grow (so that it is non-increasing over the whole range); the candidates of the
\* placed items are these positions.
C13_LatestOnTop ==
    ProperRange =>
        /\ RangeComputed =>
              /\ calculatePosition(latestDate, oldestDate, latestDate) = Num(0)
              /\ calculatePosition(oldestDate, oldestDate, latestDate) = Num(100)
              /\ \A d \in IntOf(oldestDate)..(IntOf(latestDate) - 1) :
                    Ge(calculatePosition(Num(d), oldestDate, latestDate),
                       calculatePosition(Num(d + 1), oldestDate, latestDate))
        /\ \A a \in 1..Len(timelineItems) :
              /\ timelineItems[a].date = latestDate => timelineItems[a].candidate = Num(0)
              /\ timelineItems[a].date = oldestDate => timelineItems[a].candidate = Num(100)
              /\ \A b \in 1..Len(timelineItems) :
                    Le(timelineItems[a].date, timelineItems[b].date)
                    => Ge(timelineItems[a].candidate, timelineItems[b].candidate)

\* C13 witness: over a proper range, items are placed with candidates 0, 100 and a
\* value strictly between them.
C13_Witness ==
    /\ ProperRange
    /\ \E a, b, c \in 1..Len(timelineItems) :
          /\ timelineItems[a].candidate = Num(0)
          /\ timelineItems[b].candidate = Num(100)
          /\ Lt(Num(0), timelineItems[c].candidate)
          /\ Lt(timelineItems[c].candidate, Num(100))

\* C14: an item whose candidate is in [0,100] ends at a position that is at least
\* its candidate and at most 102; no item's final position exceeds 102.
C14_AtMostOneStepOver ==
    \A a \in 1..Len(timelineItems) :
        /\ (Ge(timelineItems[a].candidate, Num(0)) /\ Le(timelineItems[a].candidate, Num(100)))
           => /\ Ge(timelineItems[a].position, timelineItems[a].candidate)
              /\ Le(timelineItems[a].position, Num(102))
        /\ ~Gt(timelineItems[a].position, Num(102))

\* C14 witness: two items ended above 100, at 102 both, a third having taken 100.
C14_Witness ==
    \E a, b \in 1..Len(timelineItems) :
        /\ a # b
        /\ timelineItems[a].position = Num(102)
        /\ timelineItems[b].position = Num(102)

\* The number of increments the loop made for item a.
C15_Increments(a) ==
    CHOOSE k \in 0..52 :
        timelineItems[a].position = Incremented(timelineItems[a].candidate, k)

\* The smallest whole number that is at least the number x.
C15_Ceil(x) ==
    IF ~IsFin(x) \/ x.e >= 0 THEN x
    ELSE LET whole == BShr(x.m, -x.e)
         IN  IF x.s > 0 THEN Fin(1, BAdd(whole, <<1>>), 0) ELSE Fin(-1, whole, 0)

\* ceil((100 - candidate) / threshold) + 1
C15_Bound(a) ==
    Add(C15_Ceil(Div(Sub(Num(100), timelineItems[a].candidate), Num(2))), Num(1))

\* The loop made at most ceil((100 - candidate) / 2) + 1 increments for item a (none,
\* where this number is negative).
C15_WithinBound(a) ==
    /\ IsFin(timelineItems[a].position)
    /\ \E k \in 0..52 :
          timelineItems[a].position = Incremented(timelineItems[a].candidate, k)
    /\ Le(Num(C15_Increments(a)), MathMax(Num(0), C15_Bound(a)))

\* The bound for every call of adjustPosition: a candidate that is a number is
\* incremented within the bound, a candidate that is not a number is returned as it is.
C15_IncrementBound ==
    \A a \in 1..Len(timelineItems) :
        IF IsFin(timelineItems[a].candidate)
        THEN C15_WithinBound(a)
        ELSE timelineItems[a].position = timelineItems[a].candidate

\* How far the layout has come: one more with every step of lines 245-310.
C15_Progress ==
    (CASE pc = "resolve" -> 0 [] pc = "labels" -> 1 [] pc = "items" -> 2
       [] pc = "rendering" -> 3 [] OTHER -> 4)
    + Len(yearLabels) + Len(timelineItems)

\* C15: for every candidate and every occupied array adjustPosition is called with, the
\* loop ends after at most ceil((100 - candidate) / 2) + 1 increments, and the layout
\* pass completes: the sort has an outcome, the item loop has an item to place or is
\* over (the year loop goes on or is over by its own condition), every step brings the
\* pass further on a way that is no longer than the years and the items it has to go
\* over, and it returns with every item placed.
C15_LayoutCompletes ==
    /\ []C15_IncrementBound
    /\ [](pc \in {"rendering", "returned"} => Len(timelineItems) = Len(files))
    /\ [](pc = "resolve" => AllResolved /\ sortOrders(pending) # {})
    /\ [](pc = "items" => Len(timelineItems) <= Len(fileData))
    /\ [](C15_Progress <= 4 + (MaxTime \div TicksPerYear) + 1 + Len(files))
    /\ [][C15_Progress' > C15_Progress]_vars

\* C15 witness: the pass has returned with every item placed, one of them after two
\* increments or more, and one after as many increments as the bound allows, and more
\* than none.
C15_Witness ==
    /\ pc = "returned"
    /\ Len(timelineItems) = Len(files)
    /\ \E a \in 1..Len(timelineItems) :
          /\ IsFin(timelineItems[a].candidate)
          /\ C15_Increments(a) >= 2
    /\ \E a \in 1..Len(timelineItems) :
          /\ IsFin(timelineItems[a].candidate)
          /\ C15_Increments(a) >= 1
          /\ Num(C15_Increments(a)) = C15_Bound(a)

====
